---- MODULE Spec2Model ----
(***************************************************************************)
(* GigFlow backend: the gig and bid collections of the store and the       *)
(* request handlers that read and write them (createGig, updateGig,        *)
(* deleteGig, createBid, updateBid, deleteBid, hireBid).  Every await on   *)
(* the store is one step of a request, so handlers of concurrent requests  *)
(* interleave between their store operations.  hireBid runs in a           *)
(* multi-document transaction: it reads from the snapshot taken at its     *)
(* first read, buffers its writes until commit, and a write to a document  *)
(* that changed since the snapshot (or that another transaction has        *)
(* written and not yet committed) fails with a write conflict.             *)
(***************************************************************************)
EXTENDS Integers, FiniteSets, Sequences, TLC

\* ---------------------------------------------------------------- bounds
MaxGigs == 2
MaxBids == 3
MaxReq == 2
MaxConn == 2

Users == {"u1", "u2", "u3"}
GigIds == 1..MaxGigs
BidIds == 1..MaxBids
Reqs == 1..MaxReq
Conns == 1..MaxConn

\* Request bodies the clients send.  0 stands for an omitted (falsy) field.
NewGigBody == [title |-> 1, description |-> 1, budget |-> 1]
GigUpdateBodies == {[title |-> 0, description |-> 0, budget |-> 0],
                    [title |-> 2, description |-> 0, budget |-> 2]}
NewBidBody == [message |-> 1, price |-> 1]
BidUpdateBodies == {[message |-> 0, price |-> 0],
                    [message |-> 0, price |-> 2]}

VARIABLES
    gigs,      \* the gigs collection: gig id -> document (live = FALSE: no such document)
    bids,      \* the bids collection: bid id -> document
    gigSeq,    \* number of gig ids handed out so far (ObjectIds are never reused)
    bidSeq,    \* number of bid ids handed out so far
    req,       \* the requests: handler, position in it, its locals, its outcome
    emitted,   \* the "hired" events given to socket.io: <<room user, bid id>>
    conns,     \* the socket.io connections: their rooms and the events they received
    creds      \* the credentials of the requests waiting at the protect middleware

vars == <<gigs, bids, gigSeq, bidSeq, req, emitted, conns, creds>>

\* ------------------------------------------------------------- documents
NoGig == [live |-> FALSE, ownerId |-> "none", title |-> 0, description |-> 0,
          budget |-> 0, status |-> "none", hiredBidId |-> 0]
NoBid == [live |-> FALSE, gigId |-> 0, freelancerId |-> "none", message |-> 0,
          price |-> 0, status |-> "none"]

\* Gig.create({title, description, budget, ownerId}): status defaults to open,
\* hiredBidId is unset.
NewGig(owner, body) ==
    [live |-> TRUE, ownerId |-> owner, title |-> body.title,
     description |-> body.description, budget |-> body.budget,
     status |-> "open", hiredBidId |-> 0]

\* Bid.create({gigId, freelancerId, message, price}): status defaults to pending.
NewBid(g, user, body) ==
    [live |-> TRUE, gigId |-> g, freelancerId |-> user, message |-> body.message,
     price |-> body.price, status |-> "pending"]

\* ----------------------------------------------------------- connections
\* A socket.io connection: the user at the client, the rooms the socket has joined
\* (room `user:${userId}` is named by its user id), the "hired" events it received.
NoConn == [open |-> FALSE, user |-> "none", rooms |-> {}, inbox |-> <<>>]

\* io.emit(..): every open connection receives the event.
Deliver_Broadcast(cs, room, ev) ==
    [c \in Conns |-> IF cs[c].open THEN [cs[c] EXCEPT !.inbox = Append(@, ev)]
                                   ELSE cs[c]]

\* io.to(room).emit(..): socket.io sends the event once to every connection that is
\* in the room now; nothing is stored for later.
Deliver(cs, room, ev) ==
    [c \in Conns |-> IF cs[c].open /\ room \in cs[c].rooms
                     THEN [cs[c] EXCEPT !.inbox = Append(@, ev)]
                     ELSE cs[c]]

\* ------------------------------------------------------------- requests
\* The credentials a request carries: its token cookie and its Authorization header.
NoCreds == [cookie |-> "none", header |-> "none"]

IdleReq == [op |-> "idle", pc |-> "idle", user |-> "none", gigId |-> 0, bidId |-> 0,
            body |-> <<>>, doc |-> <<>>, sib |-> {}, dirtyG |-> {}, dirtyB |-> {},
            resp |-> "none"]

\* A handler that has produced its outcome: res.status(..).json(..) or next(error).
Finish(rq, outcome) ==
    [rq EXCEPT !.pc = "done", !.resp = outcome, !.body = <<>>, !.doc = <<>>,
               !.sib = {}, !.dirtyG = {}, !.dirtyB = {}]

\* HTTP status of each outcome the handlers produce themselves.
HttpStatus(outcome) ==
    CASE outcome \in {"bid_created"} -> 201
      [] outcome \in {"hired_ok", "bid_updated", "bid_deleted", "gig_updated",
                      "gig_deleted", "bids_listed", "my_bids_listed",
                      "my_gigs_listed"} -> 200
      [] outcome \in {"gig_closed", "own_gig", "already_submitted", "already_assigned",
                      "bid_not_pending", "gig_is_assigned"} -> 400
      [] outcome \in {"unauthorized"} -> 401
      [] outcome \in {"not_owner"} -> 403
      [] outcome \in {"bid_not_found", "gig_not_found"} -> 404
      [] OTHER -> 0

\* ---------------------------------------------------------- transactions
\* A hireBid request whose transaction has taken its snapshot and has neither
\* committed nor aborted.
InTxn(rq) == rq.op = "hireBid" /\ rq.pc \in {"h_saveGig", "h_saveBid", "h_updateMany", "h_commit"}

\* The documents a transaction has written and not yet committed.
TxnGigWrites(rq) ==
    IF rq.op = "hireBid" /\ rq.pc \in {"h_saveBid", "h_updateMany", "h_commit"}
    THEN {rq.gigId} ELSE {}

TxnBidWrites(rq) ==
    IF rq.op = "hireBid" /\ rq.pc \in {"h_updateMany", "h_commit"}
    THEN (IF rq.doc.status # "hired" THEN {rq.bidId} ELSE {})
         \cup (IF rq.pc = "h_commit" THEN rq.sib ELSE {})
    ELSE {}

LockedGigs(r) == UNION {TxnGigWrites(req[q]) : q \in Reqs \ {r}}
LockedBids(r) == UNION {TxnBidWrites(req[q]) : q \in Reqs \ {r}}

\* A committed write by request r to the gigs gs and bids bs: every other open
\* transaction now holds a snapshot in which these documents are stale.
MarkDirty(rqs, r, gs, bs) ==
    [q \in Reqs |->
        IF q # r /\ InTxn(rqs[q])
        THEN [rqs[q] EXCEPT !.dirtyG = @ \cup gs, !.dirtyB = @ \cup bs]
        ELSE rqs[q]]

\* ------------------------------------------------------------------ Init
\* The store at the start: empty, or as posting and bidding requests that ran one
\* after another leave it (the scenario of the specification: owner O posts a gig,
\* freelancers F1 and F2 bid on it), with no request in flight.
SeedOwner == "u1"
SeedBidders == <<"u2", "u3">>

Init ==
    /\ \/ /\ gigs = [g \in GigIds |-> NoGig]
          /\ bids = [b \in BidIds |-> NoBid]
          /\ gigSeq = 0
          /\ bidSeq = 0
       \/ \E k \in 0..Len(SeedBidders) :
          /\ gigs = [g \in GigIds |->
                        IF g = 1 THEN NewGig(SeedOwner, NewGigBody) ELSE NoGig]
          /\ bids = [b \in BidIds |->
                        IF b <= k THEN NewBid(1, SeedBidders[b], NewBidBody) ELSE NoBid]
          /\ gigSeq = 1
          /\ bidSeq = k
    /\ req = [r \in Reqs |-> IdleReq]
    /\ emitted = {}
    /\ conns = [c \in Conns |-> NoConn]
    /\ creds = [r \in Reqs |-> NoCreds]

\* A client sends a request; the slots are taken in order.
Arrive(r, rq) ==
    /\ req[r].op = "idle"
    /\ \A q \in Reqs : q < r => req[q].op # "idle"
    /\ req' = [req EXCEPT ![r] = rq]

\* --------------------------------------------------------------- createGig
\* POST /api/gigs: one insert, then the 201 response.
createGig(user) ==
    /\ gigSeq < MaxGigs
    /\ gigSeq' = gigSeq + 1
    /\ gigs' = [gigs EXCEPT ![gigSeq + 1] = NewGig(user, NewGigBody)]
    /\ req' = MarkDirty(req, 0, {gigSeq + 1}, {})
    /\ UNCHANGED <<bids, bidSeq, emitted, conns, creds>>

\* -------------------------------------------------------------- createBid
\* Mutant of IsOwnGig: the own-gig check is left out.
IsOwnGig_Unchecked(gig, user) == FALSE

\* gig.ownerId.toString() === req.user._id.toString()
IsOwnGig(gig, user) == gig.ownerId = user

\* Bid.findOne({gigId, freelancerId}) finds a document.
ExistingBid(bs, g, user) ==
    \E b \in BidIds : bs[b].live /\ bs[b].gigId = g /\ bs[b].freelancerId = user

\* Mutant of DuplicateKey: the collection has no unique index.
DuplicateKey_NoIndex(bs, doc) == FALSE

\* The unique compound index {gigId, freelancerId} refuses the insert of doc.
DuplicateKey(bs, doc) ==
    \E b \in BidIds :
        bs[b].live /\ bs[b].gigId = doc.gigId /\ bs[b].freelancerId = doc.freelancerId

\* createBid requests that may still insert a bid.
PendingInserts == Cardinality({q \in Reqs : req[q].op = "createBid" /\ req[q].pc # "done"})

\* POST /api/bids {gigId, message, price}
createBidArrive(r, user, g) ==
    /\ g \in 1..gigSeq
    /\ bidSeq + PendingInserts < MaxBids
    /\ Arrive(r, [IdleReq EXCEPT !.op = "createBid", !.pc = "c_findGig", !.user = user,
                                 !.gigId = g, !.body = NewBidBody])
    /\ UNCHANGED <<gigs, bids, gigSeq, bidSeq, emitted, conns, creds>>

\* Gig.findById(gigId) and the three checks on what it returned.
createBidFindGig(r) ==
    /\ req[r].op = "createBid" /\ req[r].pc = "c_findGig"
    /\ LET gig == gigs[req[r].gigId] IN
        req' = [req EXCEPT ![r] =
            IF ~gig.live THEN Finish(@, "gig_not_found")
            ELSE IF gig.status # "open" THEN Finish(@, "gig_closed")
            ELSE IF IsOwnGig(gig, req[r].user) THEN Finish(@, "own_gig")
            ELSE [@ EXCEPT !.pc = "c_findExisting"]]
    /\ UNCHANGED <<gigs, bids, gigSeq, bidSeq, emitted, conns, creds>>

\* Bid.findOne({gigId, freelancerId})
createBidFindExisting(r) ==
    /\ req[r].op = "createBid" /\ req[r].pc = "c_findExisting"
    /\ req' = [req EXCEPT ![r] =
            IF ExistingBid(bids, req[r].gigId, req[r].user)
            THEN Finish(@, "already_submitted")
            ELSE [@ EXCEPT !.pc = "c_insert"]]
    /\ UNCHANGED <<gigs, bids, gigSeq, bidSeq, emitted, conns, creds>>

\* Bid.create(..): the insert, refused by the unique index with a duplicate key
\* error that the catch block hands to next(error); else the 201 response.
createBidInsert(r) ==
    /\ req[r].op = "createBid" /\ req[r].pc = "c_insert"
    /\ LET doc == NewBid(req[r].gigId, req[r].user, req[r].body) IN
        IF DuplicateKey(bids, doc)
        THEN /\ req' = [req EXCEPT ![r] = Finish(@, "next_error")]
             /\ UNCHANGED <<bids, bidSeq>>
        ELSE /\ bidSeq' = bidSeq + 1
             /\ bids' = [bids EXCEPT ![bidSeq + 1] = doc]
             /\ req' = MarkDirty([req EXCEPT ![r] = Finish(@, "bid_created")],
                                 r, {}, {bidSeq + 1})
    /\ UNCHANGED <<gigs, gigSeq, emitted, conns, creds>>

\* ---------------------------------------------------------------- hireBid
\* Mutant of UpdateManyFilter: the filter does not name the gig.
UpdateManyFilter_AnyGig(doc, id, g, b) ==
    doc.live /\ id # b /\ doc.status = "pending"

\* The documents Bid.updateMany({gigId, _id: {$ne: bid._id}, status: "pending"}) matches.
UpdateManyFilter(doc, id, g, b) ==
    doc.live /\ doc.gigId = g /\ id # b /\ doc.status = "pending"

\* Mutant of GigAlreadyAssigned: the status check is left out.
GigAlreadyAssigned_Unchecked(gig) == FALSE

\* if (gig.status === "assigned")
GigAlreadyAssigned(gig) == gig.status = "assigned"

\* Mutant of HireByOwner: any caller may hire.
HireByOwner_Anyone(gig, user) == TRUE

\* gig.ownerId.toString() !== req.user._id.toString(), negated
HireByOwner(gig, user) == gig.ownerId = user

\* The store refuses a transaction's write to the gigs gs and bids bs: one of them
\* changed after the snapshot, or another open transaction has written it.
WriteConflict(r, gs, bs) ==
    \/ gs \cap (req[r].dirtyG \cup LockedGigs(r)) # {}
    \/ bs \cap (req[r].dirtyB \cup LockedBids(r)) # {}

\* PATCH /api/bids/:bidId/hire: startSession, startTransaction.
hireBidArrive(r, user, b) ==
    /\ b \in 1..bidSeq
    /\ Arrive(r, [IdleReq EXCEPT !.op = "hireBid", !.pc = "h_read", !.user = user,
                                 !.bidId = b])
    /\ UNCHANGED <<gigs, bids, gigSeq, bidSeq, emitted, conns, creds>>

\* Bid.findById(bidId).populate("gigId") and Gig.findById(bid.gigId), both in the
\* session: the transaction's snapshot is taken here.  Each failed precondition
\* aborts the transaction and responds.
hireBidRead(r) ==
    /\ req[r].op = "hireBid" /\ req[r].pc = "h_read"
    /\ LET bid == bids[req[r].bidId]
           gig == gigs[bid.gigId]
           rq == [req[r] EXCEPT !.gigId = bid.gigId]
       IN req' = [req EXCEPT ![r] =
            IF ~bid.live THEN Finish(@, "bid_not_found")
            ELSE IF ~gig.live THEN Finish(rq, "gig_not_found")
            ELSE IF ~HireByOwner(gig, req[r].user) THEN Finish(rq, "not_owner")
            ELSE IF GigAlreadyAssigned(gig) THEN Finish(rq, "already_assigned")
            ELSE [rq EXCEPT !.pc = "h_saveGig", !.doc = bid,
                           !.sib = {x \in BidIds :
                                      UpdateManyFilter(bids[x], x, bid.gigId, req[r].bidId)}]]
    /\ UNCHANGED <<gigs, bids, gigSeq, bidSeq, emitted, conns, creds>>

\* gig.status = "assigned"; gig.hiredBidId = bid._id; await gig.save({session}).
\* A write conflict throws: the catch block aborts and calls next(error).
hireBidSaveGig(r) ==
    /\ req[r].op = "hireBid" /\ req[r].pc = "h_saveGig"
    /\ req' = [req EXCEPT ![r] =
            IF WriteConflict(r, {req[r].gigId}, {})
            THEN Finish(@, "next_error")
            ELSE [@ EXCEPT !.pc = "h_saveBid"]]
    /\ UNCHANGED <<gigs, bids, gigSeq, bidSeq, emitted, conns, creds>>

\* bid.status = "hired"; await bid.save({session}).  Nothing is sent to the store
\* when the loaded bid was hired already (no modified path).
hireBidSaveBid(r) ==
    /\ req[r].op = "hireBid" /\ req[r].pc = "h_saveBid"
    /\ req' = [req EXCEPT ![r] =
            IF req[r].doc.status # "hired" /\ WriteConflict(r, {}, {req[r].bidId})
            THEN Finish(@, "next_error")
            ELSE [@ EXCEPT !.pc = "h_updateMany"]]
    /\ UNCHANGED <<gigs, bids, gigSeq, bidSeq, emitted, conns, creds>>

\* Bid.updateMany({gigId, _id != bid, status pending}, {status: rejected}, {session})
hireBidUpdateMany(r) ==
    /\ req[r].op = "hireBid" /\ req[r].pc = "h_updateMany"
    /\ req' = [req EXCEPT ![r] =
            IF WriteConflict(r, {}, req[r].sib)
            THEN Finish(@, "next_error")
            ELSE [@ EXCEPT !.pc = "h_commit"]]
    /\ UNCHANGED <<gigs, bids, gigSeq, bidSeq, emitted, conns, creds>>

\* What the transaction of rq wrote, applied to the committed collections.
HiredGigs(gs, rq) ==
    [gs EXCEPT ![rq.gigId] = [@ EXCEPT !.status = "assigned", !.hiredBidId = rq.bidId]]

\* Mutant of HiredBids: the rejection of the sibling bids is lost.
HiredBids_NoReject(bs, rq) ==
    [bs EXCEPT ![rq.bidId] = [@ EXCEPT !.status = "hired"]]

HiredBids(bs, rq) ==
    [b \in BidIds |->
        IF b = rq.bidId THEN [bs[b] EXCEPT !.status = "hired"]
        ELSE IF b \in rq.sib THEN [bs[b] EXCEPT !.status = "rejected"]
        ELSE bs[b]]

\* session.commitTransaction(): the three writes become visible together.
hireBidCommit(r) ==
    /\ req[r].op = "hireBid" /\ req[r].pc = "h_commit"
    /\ gigs' = HiredGigs(gigs, req[r])
    /\ bids' = HiredBids(bids, req[r])
    /\ req' = MarkDirty([req EXCEPT ![r] = [@ EXCEPT !.pc = "h_respond"]],
                        r, {req[r].gigId}, {req[r].bidId} \cup req[r].sib)
    /\ UNCHANGED <<gigSeq, bidSeq, emitted, conns, creds>>

\* Bid.findById(bid._id), io.to(`user:${bid.freelancerId._id}`).emit("hired", ..),
\* the 200 response, endSession.
hireBidRespond(r) ==
    /\ req[r].op = "hireBid" /\ req[r].pc = "h_respond"
    /\ emitted' = emitted \cup {<<req[r].doc.freelancerId, req[r].bidId>>}
    /\ conns' = Deliver(conns, req[r].doc.freelancerId,
                        <<req[r].doc.freelancerId, req[r].bidId>>)
    /\ req' = [req EXCEPT ![r] = Finish(@, "hired_ok")]
    /\ UNCHANGED <<gigs, bids, gigSeq, bidSeq, creds>>

\* ------------------------------------------------------ updateBid, deleteBid
\* a || b on a request field: an omitted (falsy) field keeps the loaded value.
OrElse(a, b) == IF a # 0 THEN a ELSE b

\* doc.save() of a loaded document sends only the paths whose value was changed
\* since it was loaded: path p of the stored document cur becomes the assigned
\* value when that differs from the loaded one, and is left alone otherwise.
SavedPath(cur, loaded, assigned) == IF assigned # loaded THEN assigned ELSE cur

\* Mutant of SaveBid: save() writes the whole loaded document back.
SaveBid_WholeDocument(cur, loaded, body) ==
    [loaded EXCEPT !.message = OrElse(body.message, loaded.message),
                   !.price = OrElse(body.price, loaded.price)]

\* bid.message = message || bid.message; bid.price = price || bid.price; bid.save()
SaveBid(cur, loaded, body) ==
    [cur EXCEPT !.message = SavedPath(cur.message, loaded.message,
                                      OrElse(body.message, loaded.message)),
                !.price = SavedPath(cur.price, loaded.price,
                                    OrElse(body.price, loaded.price))]

\* save() has a modified path to send.
BidModified(loaded, body) ==
    \/ OrElse(body.message, loaded.message) # loaded.message
    \/ OrElse(body.price, loaded.price) # loaded.price

\* A status check that lets a rejected bid through.
BidNotPending_HiredOnly(bid) == bid.status = "hired"

\* if (bid.status !== "pending")
BidNotPending(bid) == bid.status # "pending"

\* Bid.findById(bidId) and the checks of updateBid and deleteBid on it.
FindOwnPendingBid(rq, next) ==
    LET bid == bids[rq.bidId] IN
        IF ~bid.live THEN Finish(rq, "bid_not_found")
        ELSE IF bid.freelancerId # rq.user THEN Finish(rq, "not_owner")
        ELSE IF BidNotPending(bid) THEN Finish(rq, "bid_not_pending")
        ELSE [rq EXCEPT !.pc = next, !.doc = bid]

\* PUT /api/bids/:bidId {message, price}
updateBidArrive(r, user, b, body) ==
    /\ b \in 1..bidSeq
    /\ Arrive(r, [IdleReq EXCEPT !.op = "updateBid", !.pc = "u_find", !.user = user,
                                 !.bidId = b, !.body = body])
    /\ UNCHANGED <<gigs, bids, gigSeq, bidSeq, emitted, conns, creds>>

updateBidFind(r) ==
    /\ req[r].op = "updateBid" /\ req[r].pc = "u_find"
    /\ req' = [req EXCEPT ![r] = FindOwnPendingBid(@, "u_save")]
    /\ UNCHANGED <<gigs, bids, gigSeq, bidSeq, emitted, conns, creds>>

\* bid.save(): nothing is sent when no path was modified; the update of a document
\* that is gone throws (DocumentNotFoundError -> next(error)); a write to a document
\* an open transaction has written waits for that transaction.
updateBidSave(r) ==
    /\ req[r].op = "updateBid" /\ req[r].pc = "u_save"
    /\ LET b == req[r].bidId IN
        IF ~BidModified(req[r].doc, req[r].body)
        THEN /\ req' = [req EXCEPT ![r] = Finish(@, "bid_updated")]
             /\ UNCHANGED bids
        ELSE /\ b \notin LockedBids(r)
             /\ IF ~bids[b].live
                THEN /\ req' = [req EXCEPT ![r] = Finish(@, "next_error")]
                     /\ UNCHANGED bids
                ELSE /\ bids' = [bids EXCEPT ![b] = SaveBid(@, req[r].doc, req[r].body)]
                     /\ req' = MarkDirty([req EXCEPT ![r] = Finish(@, "bid_updated")],
                                         r, {}, {b})
    /\ UNCHANGED <<gigs, gigSeq, bidSeq, emitted, conns, creds>>

\* DELETE /api/bids/:bidId
deleteBidArrive(r, user, b) ==
    /\ b \in 1..bidSeq
    /\ Arrive(r, [IdleReq EXCEPT !.op = "deleteBid", !.pc = "d_find", !.user = user,
                                 !.bidId = b])
    /\ UNCHANGED <<gigs, bids, gigSeq, bidSeq, emitted, conns, creds>>

deleteBidFind(r) ==
    /\ req[r].op = "deleteBid" /\ req[r].pc = "d_find"
    /\ req' = [req EXCEPT ![r] = FindOwnPendingBid(@, "d_delete")]
    /\ UNCHANGED <<gigs, bids, gigSeq, bidSeq, emitted, conns, creds>>

\* bid.deleteOne(): deletes the document with this _id, whatever its status is now.
deleteBidDelete(r) ==
    /\ req[r].op = "deleteBid" /\ req[r].pc = "d_delete"
    /\ LET b == req[r].bidId IN
        /\ b \notin LockedBids(r)
        /\ bids' = [bids EXCEPT ![b] = NoBid]
        /\ req' = MarkDirty([req EXCEPT ![r] = Finish(@, "bid_deleted")], r, {},
                            IF bids[b].live THEN {b} ELSE {})
    /\ UNCHANGED <<gigs, gigSeq, bidSeq, emitted, conns, creds>>

\* ------------------------------------------------------ updateGig, deleteGig
\* Mutant of SaveGig: save() writes the whole loaded document back.
SaveGig_WholeDocument(cur, loaded, body) ==
    [loaded EXCEPT !.title = OrElse(body.title, loaded.title),
                   !.description = OrElse(body.description, loaded.description),
                   !.budget = OrElse(body.budget, loaded.budget)]

\* gig.title = title || gig.title; ... ; gig.save(): only the modified paths.
SaveGig(cur, loaded, body) ==
    [cur EXCEPT !.title = SavedPath(cur.title, loaded.title,
                                    OrElse(body.title, loaded.title)),
                !.description = SavedPath(cur.description, loaded.description,
                                          OrElse(body.description, loaded.description)),
                !.budget = SavedPath(cur.budget, loaded.budget,
                                     OrElse(body.budget, loaded.budget))]

GigModified(loaded, body) ==
    \/ OrElse(body.title, loaded.title) # loaded.title
    \/ OrElse(body.description, loaded.description) # loaded.description
    \/ OrElse(body.budget, loaded.budget) # loaded.budget

\* PUT /api/gigs/:id {title, description, budget}
updateGigArrive(r, user, g, body) ==
    /\ g \in 1..gigSeq
    /\ Arrive(r, [IdleReq EXCEPT !.op = "updateGig", !.pc = "g_find", !.user = user,
                                 !.gigId = g, !.body = body])
    /\ UNCHANGED <<gigs, bids, gigSeq, bidSeq, emitted, conns, creds>>

\* Gig.findById(req.params.id) and the checks on it.
updateGigFind(r) ==
    /\ req[r].op = "updateGig" /\ req[r].pc = "g_find"
    /\ LET gig == gigs[req[r].gigId] IN
        req' = [req EXCEPT ![r] =
            IF ~gig.live THEN Finish(@, "gig_not_found")
            ELSE IF gig.ownerId # req[r].user THEN Finish(@, "not_owner")
            ELSE IF gig.status = "assigned" THEN Finish(@, "gig_is_assigned")
            ELSE [@ EXCEPT !.pc = "g_save", !.doc = gig]]
    /\ UNCHANGED <<gigs, bids, gigSeq, bidSeq, emitted, conns, creds>>

updateGigSave(r) ==
    /\ req[r].op = "updateGig" /\ req[r].pc = "g_save"
    /\ LET g == req[r].gigId IN
        IF ~GigModified(req[r].doc, req[r].body)
        THEN /\ req' = [req EXCEPT ![r] = Finish(@, "gig_updated")]
             /\ UNCHANGED gigs
        ELSE /\ g \notin LockedGigs(r)
             /\ IF ~gigs[g].live
                THEN /\ req' = [req EXCEPT ![r] = Finish(@, "next_error")]
                     /\ UNCHANGED gigs
                ELSE /\ gigs' = [gigs EXCEPT ![g] = SaveGig(@, req[r].doc, req[r].body)]
                     /\ req' = MarkDirty([req EXCEPT ![r] = Finish(@, "gig_updated")],
                                         r, {g}, {})
    /\ UNCHANGED <<bids, gigSeq, bidSeq, emitted, conns, creds>>

\* DELETE /api/gigs/:id
deleteGigArrive(r, user, g) ==
    /\ g \in 1..gigSeq
    /\ Arrive(r, [IdleReq EXCEPT !.op = "deleteGig", !.pc = "dg_find", !.user = user,
                                 !.gigId = g])
    /\ UNCHANGED <<gigs, bids, gigSeq, bidSeq, emitted, conns, creds>>

deleteGigFind(r) ==
    /\ req[r].op = "deleteGig" /\ req[r].pc = "dg_find"
    /\ LET gig == gigs[req[r].gigId] IN
        req' = [req EXCEPT ![r] =
            IF ~gig.live THEN Finish(@, "gig_not_found")
            ELSE IF gig.ownerId # req[r].user THEN Finish(@, "not_owner")
            ELSE [@ EXCEPT !.pc = "dg_deleteMany"]]
    /\ UNCHANGED <<gigs, bids, gigSeq, bidSeq, emitted, conns, creds>>

\* Bid.deleteMany({gigId: gig._id}): every bid of the gig, whatever its status.
deleteGigDeleteMany(r) ==
    /\ req[r].op = "deleteGig" /\ req[r].pc = "dg_deleteMany"
    /\ LET gone == {b \in BidIds : bids[b].live /\ bids[b].gigId = req[r].gigId} IN
        /\ gone \cap LockedBids(r) = {}
        /\ bids' = [b \in BidIds |-> IF b \in gone THEN NoBid ELSE bids[b]]
        /\ req' = MarkDirty([req EXCEPT ![r] = [@ EXCEPT !.pc = "dg_deleteOne"]],
                            r, {}, gone)
    /\ UNCHANGED <<gigs, gigSeq, bidSeq, emitted, conns, creds>>

\* gig.deleteOne(), then the 200 response.
deleteGigDeleteOne(r) ==
    /\ req[r].op = "deleteGig" /\ req[r].pc = "dg_deleteOne"
    /\ LET g == req[r].gigId IN
        /\ g \notin LockedGigs(r)
        /\ gigs' = [gigs EXCEPT ![g] = NoGig]
        /\ req' = MarkDirty([req EXCEPT ![r] = Finish(@, "gig_deleted")], r,
                            IF gigs[g].live THEN {g} ELSE {}, {})
    /\ UNCHANGED <<bids, gigSeq, bidSeq, emitted, conns, creds>>

\* ------------------------------------------- getBidsForGig, getMyBids, getMyGigs
\* if (gig.ownerId.toString() !== req.user._id.toString()), without the check.
ViewByOwner_Anyone(gig, user) == TRUE

\* if (gig.ownerId.toString() !== req.user._id.toString()) in getBidsForGig
ViewByOwner(gig, user) == gig.ownerId = user

\* GET /api/bids/:gigId
getBidsForGigArrive(r, user, g) ==
    /\ g \in 1..gigSeq
    /\ Arrive(r, [IdleReq EXCEPT !.op = "getBidsForGig", !.pc = "gb_find",
                                 !.user = user, !.gigId = g])
    /\ UNCHANGED <<gigs, bids, gigSeq, bidSeq, emitted, conns, creds>>

\* Gig.findById(gigId) and the checks on the gig.
getBidsForGigFind(r) ==
    /\ req[r].op = "getBidsForGig" /\ req[r].pc = "gb_find"
    /\ LET gig == gigs[req[r].gigId] IN
        req' = [req EXCEPT ![r] =
            IF ~gig.live THEN Finish(@, "gig_not_found")
            ELSE IF ~ViewByOwner(gig, req[r].user) THEN Finish(@, "not_owner")
            ELSE [@ EXCEPT !.pc = "gb_list"]]
    /\ UNCHANGED <<gigs, bids, gigSeq, bidSeq, emitted, conns, creds>>

\* Bid.find({ gigId }), then the 200 response with the bids.
getBidsForGigList(r) ==
    /\ req[r].op = "getBidsForGig" /\ req[r].pc = "gb_list"
    /\ req' = [req EXCEPT ![r] = Finish(@, "bids_listed")]
    /\ UNCHANGED <<gigs, bids, gigSeq, bidSeq, emitted, conns, creds>>

\* GET /api/bids/my/bids
getMyBidsArrive(r, user) ==
    /\ Arrive(r, [IdleReq EXCEPT !.op = "getMyBids", !.pc = "mb_find", !.user = user])
    /\ UNCHANGED <<gigs, bids, gigSeq, bidSeq, emitted, conns, creds>>

\* Bid.find({ freelancerId: req.user._id }): the caller's bids as they are now.
getMyBidsFind(r) ==
    /\ req[r].op = "getMyBids" /\ req[r].pc = "mb_find"
    /\ req' = [req EXCEPT ![r] =
                 [@ EXCEPT !.pc = "mb_populate",
                           !.sib = {[id |-> b, gigId |-> bids[b].gigId,
                                     status |-> bids[b].status] :
                                        b \in {x \in BidIds :
                                                 /\ bids[x].live
                                                 /\ bids[x].freelancerId = req[r].user}}]]
    /\ UNCHANGED <<gigs, bids, gigSeq, bidSeq, emitted, conns, creds>>

\* .populate("gigId", "title description budget status"): a second query, on the gigs
\* collection, for the gigs of the bids found; then the 200 response.
getMyBidsPopulate(r) ==
    /\ req[r].op = "getMyBids" /\ req[r].pc = "mb_populate"
    /\ req' = [req EXCEPT ![r] = Finish(@, "my_bids_listed")]
    /\ UNCHANGED <<gigs, bids, gigSeq, bidSeq, emitted, conns, creds>>

\* GET /api/gigs/my/gigs
getMyGigsArrive(r, user) ==
    /\ Arrive(r, [IdleReq EXCEPT !.op = "getMyGigs", !.pc = "mg_find", !.user = user])
    /\ UNCHANGED <<gigs, bids, gigSeq, bidSeq, emitted, conns, creds>>

\* Gig.find({ ownerId: req.user._id }), then the 200 response.
getMyGigsFind(r) ==
    /\ req[r].op = "getMyGigs" /\ req[r].pc = "mg_find"
    /\ req' = [req EXCEPT ![r] = Finish(@, "my_gigs_listed")]
    /\ UNCHANGED <<gigs, bids, gigSeq, bidSeq, emitted, conns, creds>>

\* ------------------------------------------------------------------- Next
Next ==
    \/ \E u \in Users : createGig(u)
    \/ \E r \in Reqs, u \in Users, g \in GigIds : createBidArrive(r, u, g)
    \/ \E r \in Reqs : createBidFindGig(r)
    \/ \E r \in Reqs : createBidFindExisting(r)
    \/ \E r \in Reqs : createBidInsert(r)
    \/ \E r \in Reqs, u \in Users, b \in BidIds : hireBidArrive(r, u, b)
    \/ \E r \in Reqs : hireBidRead(r)
    \/ \E r \in Reqs : hireBidSaveGig(r)
    \/ \E r \in Reqs : hireBidSaveBid(r)
    \/ \E r \in Reqs : hireBidUpdateMany(r)
    \/ \E r \in Reqs : hireBidCommit(r)
    \/ \E r \in Reqs : hireBidRespond(r)
    \/ \E r \in Reqs, u \in Users, b \in BidIds, body \in BidUpdateBodies :
           updateBidArrive(r, u, b, body)
    \/ \E r \in Reqs : updateBidFind(r)
    \/ \E r \in Reqs : updateBidSave(r)
    \/ \E r \in Reqs, u \in Users, b \in BidIds : deleteBidArrive(r, u, b)
    \/ \E r \in Reqs : deleteBidFind(r)
    \/ \E r \in Reqs : deleteBidDelete(r)
    \/ \E r \in Reqs, u \in Users, g \in GigIds, body \in GigUpdateBodies :
           updateGigArrive(r, u, g, body)
    \/ \E r \in Reqs : updateGigFind(r)
    \/ \E r \in Reqs : updateGigSave(r)
    \/ \E r \in Reqs, u \in Users, g \in GigIds : deleteGigArrive(r, u, g)
    \/ \E r \in Reqs : deleteGigFind(r)
    \/ \E r \in Reqs : deleteGigDeleteMany(r)
    \/ \E r \in Reqs : deleteGigDeleteOne(r)

Spec == Init /\ [][Next]_vars

\* The handlers that only read.
NextReads ==
    \/ \E r \in Reqs, u \in Users, g \in GigIds : getBidsForGigArrive(r, u, g)
    \/ \E r \in Reqs : getBidsForGigFind(r)
    \/ \E r \in Reqs : getBidsForGigList(r)
    \/ \E r \in Reqs, u \in Users : getMyBidsArrive(r, u)
    \/ \E r \in Reqs : getMyBidsFind(r)
    \/ \E r \in Reqs : getMyBidsPopulate(r)
    \/ \E r \in Reqs, u \in Users : getMyGigsArrive(r, u)
    \/ \E r \in Reqs : getMyGigsFind(r)

\* Every handler behind the protect middleware, called by an authenticated user.
SpecHandlers == Init /\ [][Next \/ NextReads]_vars

\* -------------------------------------------------- failure after the commit
\* An abort that would undo the committed writes on the gig.
AbortAfterCommit_RollsBack(gs, rq) ==
    [gs EXCEPT ![rq.gigId] = [@ EXCEPT !.status = "open", !.hiredBidId = 0]]

\* catch (error) { await session.abortTransaction() .. } entered after
\* commitTransaction() has returned: the driver refuses the abort, the store keeps
\* what was committed.
AbortAfterCommit(gs, rq) == gs

\* A step after the commit throws: Bid.findById before the emit (sent = FALSE) or
\* res.json after it (sent = TRUE).  The catch block's abortTransaction() throws in
\* turn, so neither a response nor next(error) follows; finally ends the session and
\* the rejection goes to process.on("unhandledRejection").
hireBidRespondFails(r, sent) ==
    /\ req[r].op = "hireBid" /\ req[r].pc = "h_respond"
    /\ LET ev == <<req[r].doc.freelancerId, req[r].bidId>> IN
        /\ emitted' = IF sent THEN emitted \cup {ev} ELSE emitted
        /\ conns' = IF sent THEN Deliver(conns, req[r].doc.freelancerId, ev) ELSE conns
    /\ gigs' = AbortAfterCommit(gigs, req[r])
    /\ req' = [req EXCEPT ![r] = Finish(@, "unhandled_rejection")]
    /\ UNCHANGED <<bids, gigSeq, bidSeq, creds>>

NextFaults ==
    \/ Next
    \/ \E r \in Reqs, sent \in BOOLEAN : hireBidRespondFails(r, sent)

\* The handlers, with failures of the steps that follow a hire's commit.
SpecFaults == Init /\ [][NextFaults]_vars

\* ---------------------------------------------------------------- socket.io
\* A client opens a connection: io.on("connection", (socket) => ..).  The user at
\* the client is not told to the server.
connect(c, user) ==
    /\ conns[c] = NoConn
    /\ \A d \in Conns : d < c => conns[d] # NoConn
    /\ conns' = [conns EXCEPT ![c] = [NoConn EXCEPT !.open = TRUE, !.user = user]]
    /\ UNCHANGED <<gigs, bids, gigSeq, bidSeq, req, emitted, creds>>

\* socket.on("join", (userId) => { socket.join(`user:${userId}`) }): the user id is
\* whatever the client sends.
join(c, userId) ==
    /\ conns[c].open
    /\ conns' = [conns EXCEPT ![c] = [@ EXCEPT !.rooms = @ \cup {userId}]]
    /\ UNCHANGED <<gigs, bids, gigSeq, bidSeq, req, emitted, creds>>

\* socket.on("disconnect"): socket.io has taken the socket out of its rooms.
disconnect(c) ==
    /\ conns[c].open
    /\ conns' = [conns EXCEPT ![c] = [@ EXCEPT !.open = FALSE, !.rooms = {}]]
    /\ UNCHANGED <<gigs, bids, gigSeq, bidSeq, req, emitted, creds>>

NextNotify ==
    \/ \E c \in Conns, u \in Users : connect(c, u)
    \/ \E c \in Conns, u \in Users : join(c, u)
    \/ \E c \in Conns : disconnect(c)
    \/ \E r \in Reqs, u \in Users, b \in BidIds : hireBidArrive(r, u, b)
    \/ \E r \in Reqs : hireBidRead(r)
    \/ \E r \in Reqs : hireBidSaveGig(r)
    \/ \E r \in Reqs : hireBidSaveBid(r)
    \/ \E r \in Reqs : hireBidUpdateMany(r)
    \/ \E r \in Reqs : hireBidCommit(r)
    \/ \E r \in Reqs : hireBidRespond(r)

\* The notification channel: connections, and the handler that emits to them.
SpecNotify == Init /\ [][NextNotify]_vars

\* ------------------------------------------------------------------ protect
\* A token: the subject it names (decoded.userId) and what jwt.verify makes of it.
NoToken == [sub |-> "none", sig |-> "none"]
Subjects == Users \cup {"ghost"}
Tokens == {[sub |-> u, sig |-> "valid"] : u \in Subjects}
              \cup {[sub |-> SeedOwner, sig |-> "expired"],
                    [sub |-> SeedOwner, sig |-> "forged"]}
NoHeader == [scheme |-> "none", token |-> NoToken]
Bearer(t) == [scheme |-> "Bearer", token |-> t]
Valid(u) == [sub |-> u, sig |-> "valid"]

\* The credentials of the requests: none, a cookie only, an Authorization header only
\* (Bearer or another scheme), and both with different tokens.
Credentials ==
    {[cookie |-> NoToken, header |-> NoHeader]}
    \cup {[cookie |-> t, header |-> NoHeader] : t \in Tokens}
    \cup {[cookie |-> NoToken, header |-> Bearer(t)] : t \in Tokens}
    \cup {[cookie |-> NoToken, header |-> [scheme |-> "Basic", token |-> Valid("u1")]]}
    \cup {[cookie |-> t, header |-> Bearer(Valid(u))] :
              t \in {[sub |-> SeedOwner, sig |-> "forged"], Valid("u2")},
              u \in {"u1", "u3"}}
    \cup {[cookie |-> Valid("u3"),
           header |-> Bearer([sub |-> SeedOwner, sig |-> "expired"])]}

\* The Authorization header is looked at first.
TokenOf_HeaderFirst(c) ==
    IF c.header.scheme = "Bearer" THEN c.header.token ELSE c.cookie

\* let token = req.cookies?.token; if (!token && ..startsWith("Bearer")) token = ..
TokenOf(c) ==
    IF c.cookie # NoToken THEN c.cookie
    ELSE IF c.header.scheme = "Bearer" THEN c.header.token
    ELSE NoToken

\* The middleware: the user it puts in req.user, or "unauthorized" for each of its
\* three 401 responses (no token, jwt.verify throws, User.findById finds nobody).
Protect(c) ==
    LET token == TokenOf(c) IN
        IF token = NoToken THEN "unauthorized"
        ELSE IF token.sig # "valid" THEN "unauthorized"
        ELSE IF token.sub \notin Users THEN "unauthorized"
        ELSE token.sub

\* router.<method>(path, protect, handler): the handler's first position.
FirstPc(op) ==
    CASE op = "createBid" -> "c_findGig"
      [] op = "getMyBids" -> "mb_find"
      [] op = "getBidsForGig" -> "gb_find"
      [] op = "hireBid" -> "h_read"
      [] op = "updateBid" -> "u_find"
      [] op = "deleteBid" -> "d_find"
      [] op = "getMyGigs" -> "mg_find"
      [] op = "createGig" -> "cg_create"
      [] op = "updateGig" -> "g_find"
      [] op = "deleteGig" -> "dg_find"

\* The requests a client can send to the protected routes.
RouteRequests ==
    LET At(op) == [IdleReq EXCEPT !.op = op, !.pc = "protect"] IN
        {[At("createBid") EXCEPT !.gigId = g, !.body = NewBidBody] :
             g \in IF bidSeq < MaxBids THEN 1..gigSeq ELSE {}}
        \cup {At("getMyBids"), At("getMyGigs")}
        \cup {[At("getBidsForGig") EXCEPT !.gigId = g] : g \in 1..gigSeq}
        \cup {[At("hireBid") EXCEPT !.bidId = b] : b \in 1..bidSeq}
        \cup {[At("updateBid") EXCEPT !.bidId = b, !.body = body] :
                 b \in 1..bidSeq, body \in BidUpdateBodies}
        \cup {[At("deleteBid") EXCEPT !.bidId = b] : b \in 1..bidSeq}
        \cup {[At("createGig") EXCEPT !.body = NewGigBody] :
                 g \in IF gigSeq < MaxGigs THEN {0} ELSE {}}
        \cup {[At("updateGig") EXCEPT !.gigId = g, !.body = body] :
                 g \in 1..gigSeq, body \in GigUpdateBodies}
        \cup {[At("deleteGig") EXCEPT !.gigId = g] : g \in 1..gigSeq}

\* A request with credentials c reaches a protected route.  The middleware reads no
\* gig and no bid, so the requests are admitted one at a time here.
Request(r, rq, c) ==
    /\ \A q \in Reqs : req[q].pc \in {"idle", "done"}
    /\ Arrive(r, rq)
    /\ creds' = [creds EXCEPT ![r] = c]
    /\ UNCHANGED <<gigs, bids, gigSeq, bidSeq, emitted, conns>>

\* protect(req, res, next): 401, or req.user is set and the handler of the route runs.
protect(r) ==
    /\ req[r].pc = "protect"
    /\ LET user == Protect(creds[r]) IN
        IF user = "unauthorized"
        THEN /\ req' = [req EXCEPT ![r] = Finish(@, "unauthorized")]
             /\ creds' = creds
        ELSE /\ req' = [req EXCEPT ![r] = [@ EXCEPT !.user = user,
                                                     !.pc = FirstPc(req[r].op)]]
             /\ creds' = [creds EXCEPT ![r] = NoCreds]
    /\ UNCHANGED <<gigs, bids, gigSeq, bidSeq, emitted, conns>>

\* createGig behind protect: Gig.create({.., ownerId: req.user._id}), then 201.
createGigInsert(r) ==
    /\ req[r].op = "createGig" /\ req[r].pc = "cg_create"
    /\ gigSeq < MaxGigs
    /\ gigSeq' = gigSeq + 1
    /\ gigs' = [gigs EXCEPT ![gigSeq + 1] = NewGig(req[r].user, req[r].body)]
    /\ req' = [req EXCEPT ![r] = Finish(@, "gig_created")]
    /\ UNCHANGED <<bids, bidSeq, emitted, conns, creds>>

\* The steps of the handlers, after their routes have let the request in.
HandlerSteps ==
    \/ \E r \in Reqs : createBidFindGig(r)
    \/ \E r \in Reqs : createBidFindExisting(r)
    \/ \E r \in Reqs : createBidInsert(r)
    \/ \E r \in Reqs : hireBidRead(r)
    \/ \E r \in Reqs : hireBidSaveGig(r)
    \/ \E r \in Reqs : hireBidSaveBid(r)
    \/ \E r \in Reqs : hireBidUpdateMany(r)
    \/ \E r \in Reqs : hireBidCommit(r)
    \/ \E r \in Reqs : hireBidRespond(r)
    \/ \E r \in Reqs : updateBidFind(r)
    \/ \E r \in Reqs : updateBidSave(r)
    \/ \E r \in Reqs : deleteBidFind(r)
    \/ \E r \in Reqs : deleteBidDelete(r)
    \/ \E r \in Reqs : updateGigFind(r)
    \/ \E r \in Reqs : updateGigSave(r)
    \/ \E r \in Reqs : deleteGigFind(r)
    \/ \E r \in Reqs : deleteGigDeleteMany(r)
    \/ \E r \in Reqs : deleteGigDeleteOne(r)
    \/ \E r \in Reqs : getBidsForGigFind(r)
    \/ \E r \in Reqs : getBidsForGigList(r)
    \/ \E r \in Reqs : getMyBidsFind(r)
    \/ \E r \in Reqs : getMyBidsPopulate(r)
    \/ \E r \in Reqs : getMyGigsFind(r)
    \/ \E r \in Reqs : createGigInsert(r)

NextAuth ==
    \/ \E r \in Reqs, c \in Credentials : \E rq \in RouteRequests : Request(r, rq, c)
    \/ \E r \in Reqs : protect(r)
    \/ HandlerSteps

\* The protected routes, each request carrying its credentials.
SpecAuth == Init /\ [][NextAuth]_vars

\* ================================================================ claims
HiredBidsOf(g) == {b \in BidIds : bids[b].live /\ bids[b].gigId = g /\ bids[b].status = "hired"}

IsHire(r) == req[r].op = "hireBid"

\* Request r takes the step that ends its handler.
Finishes(r) == req[r].pc \notin {"idle", "done"} /\ req'[r].pc = "done"

\* The hire transaction of request r commits in this step.
Commits(r) == IsHire(r) /\ req[r].pc = "h_commit" /\ req'[r].pc = "h_respond"

\* C1: in every reachable state each gig has at most one bid with status hired.
C1_AtMostOneHired == \A g \in GigIds : Cardinality(HiredBidsOf(g)) <= 1

\* C1 witness: two hire requests for two bids of one gig have both ended, one of them
\* having hired its bid.
C1_Witness ==
    \E r1, r2 \in Reqs :
        /\ IsHire(r1) /\ IsHire(r2) /\ req[r1].pc = "done" /\ req[r2].pc = "done"
        /\ req[r1].gigId = req[r2].gigId /\ req[r1].bidId # req[r2].bidId
        /\ req[r1].resp = "hired_ok" /\ req[r2].resp # "hired_ok"
        /\ HiredBidsOf(req[r1].gigId) = {req[r1].bidId}

\* C2 (as claimed): every gig that exists and is not in the middle of its own
\* deletion is assigned if and only if exactly one hired bid references it.
C2_AssignedIffOneHired ==
    \A g \in GigIds :
        (gigs[g].live /\ ~\E r \in Reqs : req[r].op = "deleteGig" /\ req[r].gigId = g
                                          /\ req[r].pc = "dg_deleteOne")
        => (gigs[g].status = "assigned" <=> Cardinality(HiredBidsOf(g)) = 1)

\* C3 (as claimed): of two ended hire requests by the gig's owner for two bids of the
\* same gig, one got the 200 success response and the other the 400 conflict response.
C3_OneWinnerOthersConflict ==
    \A r1, r2 \in Reqs :
        (/\ r1 # r2 /\ IsHire(r1) /\ IsHire(r2)
         /\ req[r1].pc = "done" /\ req[r2].pc = "done"
         /\ req[r1].gigId = req[r2].gigId /\ req[r1].bidId # req[r2].bidId
         /\ {req[r1].resp, req[r2].resp} \cap {"bid_not_found", "gig_not_found", "not_owner"} = {})
        => {req[r1].resp, req[r2].resp} = {"hired_ok", "already_assigned"}

\* C4: a gig's status changes only from open to assigned and only in the commit of a
\* hire on that gig; an assigned gig keeps its status and its hiredBidId for as long
\* as it exists.
C4_AssignedOnce ==
    [][\A g \in GigIds :
        (gigs[g].live /\ gigs'[g].live) =>
            /\ gigs[g].status = "assigned" =>
                  /\ gigs'[g].status = "assigned"
                  /\ gigs'[g].hiredBidId = gigs[g].hiredBidId
            /\ gigs'[g].status # gigs[g].status =>
                  /\ gigs[g].status = "open" /\ gigs'[g].status = "assigned"
                  /\ \E r \in Reqs : Commits(r) /\ req[r].gigId = g]_vars

\* C4 witness: an updateGig that loaded the gig while it was open is about to save
\* it, and the gig has been assigned in the meantime.
C4_Witness ==
    \E r \in Reqs :
        /\ req[r].op = "updateGig" /\ req[r].pc = "g_save"
        /\ gigs[req[r].gigId].live /\ gigs[req[r].gigId].status = "assigned"
        /\ GigModified(req[r].doc, req[r].body)

\* C5: when a hire commits and nothing in the store changed since its snapshot, then
\* after the commit the gig is assigned with hiredBidId the hired bid, that bid is
\* hired, and every other bid of the gig that was pending is rejected.
C5_HireCommitsAll ==
    [][\A r \in Reqs :
        (Commits(r) /\ req[r].dirtyG = {} /\ req[r].dirtyB = {}) =>
            LET g == req[r].gigId
                b == req[r].bidId
            IN /\ gigs'[g].live /\ gigs'[g].status = "assigned" /\ gigs'[g].hiredBidId = b
               /\ bids'[b].live /\ bids'[b].status = "hired"
               /\ \A x \in BidIds \ {b} :
                    (bids[x].live /\ bids[x].gigId = g /\ bids[x].status = "pending")
                    => bids'[x].status = "rejected"]_vars

\* C5 witness: a hire has committed and a sibling bid of the hired one is rejected.
C5_Witness ==
    \E r \in Reqs, x \in BidIds :
        /\ IsHire(r) /\ req[r].pc = "h_respond"
        /\ gigs[req[r].gigId].status = "assigned" /\ gigs[req[r].gigId].hiredBidId = req[r].bidId
        /\ bids[req[r].bidId].status = "hired"
        /\ x # req[r].bidId /\ bids[x].gigId = req[r].gigId /\ bids[x].status = "rejected"

\* The outcome a hire request must get from the store as it is, when a precondition fails.
C6_Expected(r) ==
    LET bid == bids[req[r].bidId] IN
        IF ~bid.live THEN "bid_not_found"
        ELSE IF ~gigs[bid.gigId].live THEN "gig_not_found"
        ELSE IF gigs[bid.gigId].ownerId # req[r].user THEN "not_owner"
        ELSE IF gigs[bid.gigId].status = "assigned" THEN "already_assigned"
        ELSE "none"

\* C6: a hire request that reads a store in which one of its preconditions fails ends
\* in that step with the matching error and the step changes no gig and no bid; and a
\* hire request that ended with a precondition error never wrote anything.
C6_FailedHireChangesNothing ==
    [][\A r \in Reqs :
        (IsHire(r) /\ req[r].pc = "h_read" /\ req'[r].pc # "h_read") =>
            /\ C6_Expected(r) # "none" =>
                  /\ req'[r].pc = "done" /\ req'[r].resp = C6_Expected(r)
                  /\ gigs' = gigs /\ bids' = bids /\ emitted' = emitted
            /\ req'[r].pc = "done" => C6_Expected(r) # "none"]_vars

\* C6 witness: a hire on a second bid of a gig that is assigned to another bid has
\* ended with the conflict response.
C6_Witness ==
    \E r \in Reqs :
        /\ IsHire(r) /\ req[r].pc = "done" /\ req[r].resp = "already_assigned"
        /\ gigs[req[r].gigId].status = "assigned"
        /\ gigs[req[r].gigId].hiredBidId # req[r].bidId
        /\ bids[req[r].bidId].live

\* C7: every step of a hire request on a bid of gig G leaves every other gig and every
\* bid whose gigId is not G as it was.
C7_HireFrame ==
    [][\A r \in Reqs :
        (IsHire(r) /\ req[r].pc \in {"h_saveGig", "h_saveBid", "h_updateMany", "h_commit",
                                      "h_respond"}
                   /\ req'[r].pc # req[r].pc) =>
            /\ \A g \in GigIds \ {req[r].gigId} : gigs'[g] = gigs[g]
            /\ \A b \in BidIds : bids[b].gigId # req[r].gigId => bids'[b] = bids[b]]_vars

\* C7 witness: a hire has committed while another gig holds a pending bid.
C7_Witness ==
    \E r \in Reqs, b \in BidIds :
        /\ IsHire(r) /\ req[r].pc = "h_respond"
        /\ bids[b].live /\ bids[b].gigId # req[r].gigId /\ bids[b].status = "pending"
        /\ gigs[bids[b].gigId].live

\* C8: no two bids share the same (gigId, freelancerId) pair.
C8_UniquePair ==
    \A b1, b2 \in BidIds :
        (b1 # b2 /\ bids[b1].live /\ bids[b2].live)
        => ~(bids[b1].gigId = bids[b2].gigId /\ bids[b1].freelancerId = bids[b2].freelancerId)

\* C8 witness: two createBid requests of one freelancer for one gig both passed the
\* existing-bid lookup; one has inserted its bid and the other is about to insert.
C8_Witness ==
    \E r1, r2 \in Reqs :
        /\ req[r1].op = "createBid" /\ req[r2].op = "createBid"
        /\ req[r1].user = req[r2].user /\ req[r1].gigId = req[r2].gigId
        /\ req[r1].resp = "bid_created" /\ req[r2].pc = "done" /\ req[r2].resp = "next_error"
        /\ ExistingBid(bids, req[r1].gigId, req[r1].user)

\* C9 (as claimed): a createBid request that ends while its (gigId, freelancerId) pair
\* has a bid on an existing gig ends with an HTTP 400 response of the handler, and
\* creates no bid.
C9_DuplicateAlwaysConflict ==
    [][\A r \in Reqs :
        (/\ req[r].op = "createBid" /\ Finishes(r)
         /\ gigs[req[r].gigId].live
         /\ ExistingBid(bids, req[r].gigId, req[r].user)) =>
            /\ HttpStatus(req'[r].resp) = 400
            /\ bids' = bids]_vars

\* C10: no bid's freelancerId is the ownerId of its gig.
C10_NeverOwnGig ==
    \A b \in BidIds :
        (bids[b].live /\ gigs[bids[b].gigId].live)
        => bids[b].freelancerId # gigs[bids[b].gigId].ownerId

\* C10 witness: a createBid request of a gig's owner on that gig was rejected.
C10_Witness ==
    \E r \in Reqs :
        /\ req[r].op = "createBid" /\ req[r].pc = "done" /\ req[r].resp = "own_gig"
        /\ gigs[req[r].gigId].live /\ gigs[req[r].gigId].ownerId = req[r].user

\* The live bids of gig g.
BidsOf(bs, g) == {b \in BidIds : bs[b].live /\ bs[b].gigId = g}

\* C11 (as claimed): a gig that is assigned holds no pending bid.
C11_AssignedGigHasNoPendingBid ==
    \A g \in GigIds :
        (gigs[g].live /\ gigs[g].status = "assigned")
        => \A b \in BidsOf(bids, g) : bids[b].status # "pending"

\* Request r of handler op reads its bid in this step.
ReadsBid(r, op, pc) == req[r].op = op /\ req[r].pc = pc /\ req'[r].pc # pc

\* C12: an updateBid or deleteBid request of the bid's freelancer that finds the bid
\* hired or rejected ends with the 400 conflict response, and the bid stays as it is.
C12_TerminalBidConflict ==
    [][\A r \in Reqs :
        (/\ ReadsBid(r, "updateBid", "u_find") \/ ReadsBid(r, "deleteBid", "d_find")
         /\ bids[req[r].bidId].live
         /\ bids[req[r].bidId].freelancerId = req[r].user
         /\ bids[req[r].bidId].status \in {"hired", "rejected"}) =>
            /\ req'[r].pc = "done" /\ req'[r].resp = "bid_not_pending"
            /\ HttpStatus(req'[r].resp) = 400
            /\ bids' = bids]_vars

\* C12 witness: the freelancer's update or delete of a rejected bid has been refused
\* with the conflict response.
C12_Witness ==
    \E r \in Reqs :
        /\ req[r].op \in {"updateBid", "deleteBid"} /\ req[r].pc = "done"
        /\ req[r].resp = "bid_not_pending"
        /\ bids[req[r].bidId].live /\ bids[req[r].bidId].freelancerId = req[r].user
        /\ bids[req[r].bidId].status = "rejected"

\* C13 (as claimed): no step of an updateBid or deleteBid request changes the message
\* or the price of a bid that is hired or rejected, or removes it.
C13_TerminalBidImmutable ==
    [][\A r \in Reqs, b \in BidIds :
        (/\ req[r].op \in {"updateBid", "deleteBid"} /\ Finishes(r)
         /\ bids[b].live /\ bids[b].status \in {"hired", "rejected"}) =>
            bids'[b] = bids[b]]_vars

\* C14 (as claimed): when a deleteGig request ends with its 200 response, the gig is
\* gone and no bid references it.
C14_DeleteGigLeavesNoBid ==
    [][\A r \in Reqs :
        (req[r].op = "deleteGig" /\ Finishes(r) /\ req'[r].resp = "gig_deleted") =>
            /\ ~gigs'[req[r].gigId].live
            /\ BidsOf(bids', req[r].gigId) = {}]_vars

\* C15 (as claimed): the title, description and budget of a gig that is assigned do
\* not change.
C15_AssignedGigFieldsFrozen ==
    [][\A g \in GigIds :
        (gigs[g].live /\ gigs[g].status = "assigned" /\ gigs'[g].live) =>
            /\ gigs'[g].title = gigs[g].title
            /\ gigs'[g].description = gigs[g].description
            /\ gigs'[g].budget = gigs[g].budget]_vars

\* Request r runs the ownership check of its handler in this step: the step reads a
\* gig or bid that exists and whose owner is not the caller.
ForeignGigRead(r) ==
    /\ \/ ReadsBid(r, "updateGig", "g_find")
       \/ ReadsBid(r, "deleteGig", "dg_find")
       \/ ReadsBid(r, "getBidsForGig", "gb_find")
    /\ gigs[req[r].gigId].live
    /\ gigs[req[r].gigId].ownerId # req[r].user

\* The same for hireBid, whose gig is the gig of the bid it reads.
ForeignHireRead(r) ==
    /\ ReadsBid(r, "hireBid", "h_read")
    /\ bids[req[r].bidId].live
    /\ gigs[bids[req[r].bidId].gigId].live
    /\ gigs[bids[req[r].bidId].gigId].ownerId # req[r].user

\* The same for updateBid and deleteBid, owned by the bid's freelancer.
ForeignBidRead(r) ==
    /\ ReadsBid(r, "updateBid", "u_find") \/ ReadsBid(r, "deleteBid", "d_find")
    /\ bids[req[r].bidId].live
    /\ bids[req[r].bidId].freelancerId # req[r].user

\* C16: updateGig, deleteGig, hireBid and getBidsForGig called by a user who is not the
\* gig's owner, and updateBid and deleteBid called by a user who is not the bid's
\* freelancer, end with the 403 response and change no gig and no bid.
C16_NonOwnerForbidden ==
    [][\A r \in Reqs :
        (ForeignGigRead(r) \/ ForeignHireRead(r) \/ ForeignBidRead(r)) =>
            /\ req'[r].pc = "done" /\ HttpStatus(req'[r].resp) = 403
            /\ gigs' = gigs /\ bids' = bids /\ emitted' = emitted]_vars

\* C16 witness: a non-owner's getBidsForGig and a non-freelancer's bid request have
\* both been refused with 403.
C16_Witness ==
    \E r, q \in Reqs :
        /\ req[r].op = "getBidsForGig" /\ req[r].pc = "done"
        /\ req[r].resp = "not_owner"
        /\ gigs[req[r].gigId].live /\ gigs[req[r].gigId].ownerId # req[r].user
        /\ req[q].op \in {"updateBid", "deleteBid"} /\ req[q].pc = "done"
        /\ req[q].resp = "not_owner"
        /\ bids[req[q].bidId].live /\ bids[req[q].bidId].freelancerId # req[q].user

\* Token t is signed, not expired, and names a user that exists.
GoodToken(t) == t.sig = "valid" /\ t.sub \in Users

\* The request at the middleware is turned away with 401; no handler position is
\* entered and the store is left alone.
TurnedAway(r) ==
    /\ req'[r].pc = "done" /\ HttpStatus(req'[r].resp) = 401
    /\ gigs' = gigs /\ bids' = bids /\ gigSeq' = gigSeq /\ bidSeq' = bidSeq
    /\ emitted' = emitted

\* C17: on every protected route a request without a credential, with a forged or
\* expired one, or with one that names no existing user gets 401 before its handler
\* runs and changes nothing; when a cookie is present it alone decides, whatever the
\* Authorization header holds; a 401 is only ever given by the middleware.
C17_ProtectFailsClosed ==
    [][\A r \in Reqs :
        /\ (req[r].pc = "protect" /\ req'[r].pc # "protect") =>
            LET cookie == creds[r].cookie
                header == creds[r].header IN
                /\ (cookie = NoToken /\ header.scheme # "Bearer") => TurnedAway(r)
                /\ (cookie = NoToken /\ header.scheme = "Bearer"
                        /\ ~GoodToken(header.token)) => TurnedAway(r)
                /\ (cookie # NoToken /\ ~GoodToken(cookie)) => TurnedAway(r)
                /\ (cookie # NoToken /\ GoodToken(cookie)) =>
                        /\ req'[r].user = cookie.sub
                        /\ req'[r].pc = FirstPc(req[r].op)
        /\ (req[r].pc # "done" /\ req'[r].pc = "done" /\ req'[r].resp = "unauthorized")
                => req[r].pc = "protect"]_vars

\* C17 witness: a createBid request whose cookie is forged and whose Authorization
\* header holds a good token has been turned away with 401, and no bid was created.
C17_Witness ==
    \E r \in Reqs :
        /\ req[r].op = "createBid" /\ req[r].pc = "done"
        /\ req[r].resp = "unauthorized"
        /\ creds[r].cookie.sig = "forged"
        /\ creds[r].header.scheme = "Bearer" /\ GoodToken(creds[r].header.token)
        /\ bidSeq = 0

\* C18: a "hired" event is emitted only by a hire that has committed (never by one
\* that failed a precondition or was aborted), and a step of a hire after its commit,
\* failing or not, leaves every gig and every bid as committed.
C18_EmitAfterCommitOnly ==
    /\ [](\A ev \in emitted : \E r \in Reqs :
            /\ req[r].op = "hireBid" /\ req[r].bidId = ev[2] /\ req[r].pc = "done"
            /\ req[r].resp \in {"hired_ok", "unhandled_rejection"})
    /\ [][/\ emitted' # emitted =>
                \E r \in Reqs : /\ req[r].op = "hireBid" /\ req[r].pc = "h_respond"
                                /\ req'[r].pc = "done"
                                /\ emitted' = emitted \cup {<<req[r].doc.freelancerId,
                                                              req[r].bidId>>}
          /\ \A r \in Reqs :
                (req[r].op = "hireBid" /\ req[r].pc = "h_respond" /\ req'[r].pc = "done")
                    => gigs' = gigs /\ bids' = bids
          /\ \A r \in Reqs :
                req'[r].pc = "h_respond" =>
                    \/ req[r].pc = "h_respond"
                    \/ /\ req[r].pc = "h_commit"
                       /\ gigs'[req[r].gigId].status = "assigned"
                       /\ gigs'[req[r].gigId].hiredBidId = req[r].bidId
                       /\ bids'[req[r].bidId].status = "hired"]_vars

\* C18 witness: a hire failed after its commit without having emitted; its gig is
\* assigned, its bid hired and the sibling rejected.
C18_Witness ==
    \E r \in Reqs :
        /\ req[r].op = "hireBid" /\ req[r].pc = "done"
        /\ req[r].resp = "unhandled_rejection"
        /\ emitted = {}
        /\ gigs[req[r].gigId].status = "assigned"
        /\ gigs[req[r].gigId].hiredBidId = req[r].bidId
        /\ bids[req[r].bidId].status = "hired"
        /\ \E b \in BidsOf(bids, req[r].gigId) : bids[b].status = "rejected"

\* Request r emits its "hired" event in this step.
Emits(r) == req[r].op = "hireBid" /\ req[r].pc = "h_respond" /\ emitted' # emitted

\* C19: the inbox of a connection grows only in the step that emits a "hired" event,
\* only if the connection is then open and in the room of the hired freelancer, and
\* by that one event; no inbox holds an event twice.  So a connection outside the
\* room, or one that joins after the emit, does not get the event.
C19_DeliveredOnceToRoom ==
    /\ [](\A c \in Conns : \A i, j \in 1..Len(conns[c].inbox) :
            conns[c].inbox[i] = conns[c].inbox[j] => i = j)
    /\ [][\A c \in Conns :
            conns'[c].inbox # conns[c].inbox =>
                \E r \in Reqs :
                    /\ Emits(r)
                    /\ conns[c].open
                    /\ req[r].doc.freelancerId \in conns[c].rooms
                    /\ conns'[c].inbox =
                         Append(conns[c].inbox,
                                <<req[r].doc.freelancerId, req[r].bidId>>)]_vars

\* C19 witness: one connection was in the hired freelancer's room at the emit and
\* holds the event once; another is in the room now, joined later, and holds nothing.
C19_Witness ==
    \E c, d \in Conns : \E ev \in emitted :
        /\ conns[c].inbox = <<ev>>
        /\ conns[d].open /\ ev[1] \in conns[d].rooms /\ conns[d].inbox = <<>>

\* C20 (as claimed): a connection is in no room but that of the user at its client,
\* and holds no event of another user's room.
C20_OwnChannelOnly ==
    \A c \in Conns :
        /\ conns[c].rooms \subseteq {conns[c].user}
        /\ \A i \in 1..Len(conns[c].inbox) : conns[c].inbox[i][1] = conns[c].user

\* C21: a bid that appears starts pending; a bid's status changes only from pending
\* to hired or rejected, only in the commit of a hireBid on the bid's gig, and only
\* while that gig was still open, so no bid of an assigned gig changes status.
C21_StatusChangesOnlyByHire ==
    [][\A b \in BidIds :
        /\ (~bids[b].live /\ bids'[b].live) => bids'[b].status = "pending"
        /\ (bids[b].live /\ bids'[b].live /\ bids'[b].status # bids[b].status) =>
            /\ bids[b].status = "pending"
            /\ bids'[b].status \in {"hired", "rejected"}
            /\ gigs[bids[b].gigId].status = "open"
            /\ \E r \in Reqs :
                /\ Commits(r) /\ req[r].gigId = bids[b].gigId
                /\ bids'[b].status = "hired" <=> b = req[r].bidId]_vars

\* C21 witness: a hire has committed, one bid of the gig is hired and one rejected,
\* and an updateBid that loaded a bid of the gig as pending has saved after it.
C21_Witness ==
    \E r, q \in Reqs :
        /\ IsHire(r) /\ req[r].pc = "done" /\ req[r].resp = "hired_ok"
        /\ bids[req[r].bidId].live /\ bids[req[r].bidId].status = "hired"
        /\ \E b \in BidsOf(bids, req[r].gigId) : bids[b].status = "rejected"
        /\ req[q].op = "updateBid" /\ req[q].pc = "done" /\ req[q].resp = "bid_updated"
        /\ bids[req[q].bidId].live /\ bids[req[q].bidId].gigId = req[r].gigId
        /\ bids[req[q].bidId].status # "pending"

\* C22 (as claimed): what a reader outside the hiring transaction puts together is a
\* state before or after the hire.  getMyBids answers with the caller's bids and, for
\* each, its gig: no bid in the answer is pending while its gig is assigned, and none
\* is hired while its gig is open.
C22_HireVisibleTogether ==
    [][\A r \in Reqs :
        (req[r].op = "getMyBids" /\ req[r].pc = "mb_populate" /\ Finishes(r)) =>
            \A seen \in req[r].sib :
                gigs[seen.gigId].live =>
                    /\ gigs[seen.gigId].status = "assigned" => seen.status # "pending"
                    /\ seen.status = "hired" => gigs[seen.gigId].status # "open"]_vars

\* The handler answered with res.status(..).json(..).
Responded(outcome) == HttpStatus(outcome) # 0

\* The handler called next(error).
HandedOff(outcome) == outcome = "next_error"

\* C23 (as claimed): a hireBid handler that has ended has left its transaction
\* (committed or aborted, not open) and has produced exactly one outcome: a response
\* or one hand-off to the error handler.
C23_HireEndsWithOneOutcome ==
    \A r \in Reqs :
        (IsHire(r) /\ req[r].pc = "done") =>
            /\ ~InTxn(req[r])
            /\ Responded(req[r].resp) # HandedOff(req[r].resp)

\* C24 (as claimed): hiredBidId of an open gig is unset; hiredBidId of an assigned gig
\* is the id of an existing bid of that gig whose status is hired.
C24_HiredBidIdValid ==
    \A g \in GigIds :
        gigs[g].live =>
            /\ gigs[g].status = "open" => gigs[g].hiredBidId = 0
            /\ gigs[g].status = "assigned" =>
                /\ gigs[g].hiredBidId \in BidIds
                /\ bids[gigs[g].hiredBidId].live
                /\ bids[gigs[g].hiredBidId].gigId = g
                /\ bids[gigs[g].hiredBidId].status = "hired"

====
